---------------------------- MODULE Spec2Model ----------------------------
(***************************************************************************)
(* String Analysis API (src/main.py): an in-memory record store keyed by   *)
(* the SHA-256 digest of each stored string, with get / delete by digest   *)
(* or raw value, a structured list filter and a heuristic natural-language *)
(* filter.                                                                 *)
(*                                                                         *)
(* Strings are TLA+ strings; a character is a string of length 1.          *)
(* The dict string_db is a sequence of entries [k, v] in insertion order   *)
(* (Python dicts keep insertion order).                                    *)
(***************************************************************************)
EXTENDS Integers, Sequences, FiniteSets, TLC

VARIABLES
    string_db,   \* the global dict: sequence of [k |-> key, v |-> StoredString]
    request,     \* the request handled last
    response,    \* what the handler returned: [status, body]
    prev_db,     \* string_db as it was when that request arrived
    last_save    \* outcome of the save_db() call made by that request

vars == <<string_db, request, response, prev_db, last_save>>

---------------------------------------------------------------------------
(* Characters and strings *)

Upper == "ABCDEFGHIJKLMNOPQRSTUVWXYZ"

Lower == "abcdefghijklmnopqrstuvwxyz"

Digits == "0123456789"

HexUpper == "0123456789ABCDEF"

HexLower == "0123456789abcdef"

\* Printable ASCII, code points 32..126, in order.  The grave accent (96)
\* cannot be written in a TLA+ string; "?" holds its place.
Ascii == " !\"#$%&'()*+,-./0123456789:;<=>?@ABCDEFGHIJKLMNOPQRSTUVWXYZ[\\]^_?abcdefghijklmnopqrstuvwxyz{|}~"

At(s, i) == SubSeq(s, i, i)

Chars(s) == {At(s, i) : i \in 1..Len(s)}

\* Position of character c in s, 0 when absent.
Index(s, c) ==
    IF \E i \in 1..Len(s) : At(s, i) = c
    THEN CHOOSE i \in 1..Len(s) : At(s, i) = c /\ \A j \in 1..(i - 1) : At(s, j) # c
    ELSE 0

IsSpace(c) == c \in {" ", "\t", "\n", "\r", "\f"}

UpperSet == Chars(Upper)

LowerSet == Chars(Lower)

DigitSet == Chars(Digits)

HexSet == Chars(HexLower) \cup Chars(HexUpper)

IsDigit(c) == c \in DigitSet

IsAsciiLetter(c) == c \in UpperSet \/ c \in LowerSet

\* \w without the underscore: letters and digits.
IsAlnum(c) == IsAsciiLetter(c) \/ IsDigit(c)

ToLower(c) == IF c \in UpperSet THEN At(Lower, Index(Upper, c)) ELSE c

RECURSIVE lower(_)
lower(s) == IF s = "" THEN "" ELSE ToLower(Head(s)) \o lower(Tail(s))

RECURSIVE reverse(_)
reverse(s) == IF s = "" THEN "" ELSE reverse(Tail(s)) \o Head(s)

RECURSIVE lstrip(_)
lstrip(s) == IF s # "" /\ IsSpace(Head(s)) THEN lstrip(Tail(s)) ELSE s

strip(s) == reverse(lstrip(reverse(lstrip(s))))

\* First whitespace-delimited token of s (s starts with a non-space).
RECURSIVE FirstToken(_)
FirstToken(s) ==
    IF s = "" \/ IsSpace(Head(s)) THEN "" ELSE Head(s) \o FirstToken(Tail(s))

\* str.split(): the maximal runs of non-whitespace characters.
RECURSIVE split(_)
split(s) ==
    LET t == lstrip(s) IN
    IF t = "" THEN <<>>
    ELSE LET w == FirstToken(t)
         IN <<w>> \o split(SubSeq(t, Len(w) + 1, Len(t)))

StartsWithAt(s, i, p) ==
    /\ i >= 1
    /\ i + Len(p) - 1 <= Len(s)
    /\ SubSeq(s, i, i + Len(p) - 1) = p

\* Python's  p in s
Contains(s, p) == \E i \in 1..(Len(s) + 1) : StartsWithAt(s, i, p)

Min(a, b) == IF a <= b THEN a ELSE b

---------------------------------------------------------------------------
(* Utilities (src/main.py 65-93) *)

\* hashlib.sha256(data.encode("utf-8")).hexdigest().  The digest is written
\* by its first four hexadecimal digits; the entries are the real SHA-256
\* values.  The stored string "559a" stands for the string that spells the
\* digest of "A": a raw value that is also another record's identifier.
generate_sha_256(data) ==
    CASE data = "b+b"  -> "00b1"
      [] data = "b b"  -> "32b8"
      [] data = "A"    -> "559a"
      [] data = "559a" -> "599d"

RECURSIVE StripNonWord(_)
StripNonWord(s) ==
    IF s = "" THEN ""
    ELSE (IF IsAlnum(Head(s)) THEN Head(s) ELSE "") \o StripNonWord(Tail(s))

\* re.sub(r'[\W_]+', '', data.lower())
clean_for_char_ops(data) == StripNonWord(lower(data))

palindrome(data) ==
    LET clean_data == clean_for_char_ops(data)
    IN clean_data = reverse(clean_data)

char_count(data) ==
    LET clean_data == clean_for_char_ops(data)
    IN [ch \in Chars(clean_data) |->
            Cardinality({i \in 1..Len(clean_data) : At(clean_data, i) = ch})]

unique_characters_count(data) == Cardinality(DOMAIN char_count(data))

word_count(data) ==
    IF data = "" \/ strip(data) = "" THEN 0 ELSE Len(split(data))

---------------------------------------------------------------------------
(* urllib.parse (src/main.py 9, 137, 152) *)

HexVal(c) ==
    IF Index(HexLower, c) > 0 THEN Index(HexLower, c) - 1
    ELSE Index(HexUpper, c) - 1

IsHex(c) == c \in HexSet

\* The character a decoded byte stands for.  Bytes outside printable ASCII
\* (control characters, and bytes >= 0x80, which decode with
\* errors='replace') are written "?"; no input of the model produces one.
Chr(n) == IF n \in 32..126 THEN At(Ascii, n - 31) ELSE "?"

Ord(c) == Index(Ascii, c) + 31

\* urllib.parse.unquote: every %XX with two hexadecimal digits becomes the
\* character it encodes; any other '%' stays.
RECURSIVE unquote(_)
unquote(s) ==
    IF s = "" THEN ""
    ELSE IF Head(s) = "%" /\ Len(s) >= 3 /\ IsHex(At(s, 2)) /\ IsHex(At(s, 3))
         THEN Chr(16 * HexVal(At(s, 2)) + HexVal(At(s, 3)))
                  \o unquote(SubSeq(s, 4, Len(s)))
         ELSE Head(s) \o unquote(Tail(s))

RECURSIVE PlusToSpace(_)
PlusToSpace(s) ==
    IF s = "" THEN ""
    ELSE (IF Head(s) = "+" THEN " " ELSE Head(s)) \o PlusToSpace(Tail(s))

\* urllib.parse.unquote_plus: '+' becomes a space, then unquote.
unquote_plus(s) == unquote(PlusToSpace(s))

---------------------------------------------------------------------------
(* Dict operations on string_db *)

DictHas(d, key) == \E i \in 1..Len(d) : d[i].k = key

DictGet(d, key) == d[CHOOSE i \in 1..Len(d) : d[i].k = key].v

\* d[key] = val : an existing key keeps its position, a new key goes last.
DictSet(d, key, val) ==
    IF DictHas(d, key)
    THEN [i \in 1..Len(d) |-> IF d[i].k = key THEN [k |-> key, v |-> val] ELSE d[i]]
    ELSE Append(d, [k |-> key, v |-> val])

\* del d[key]
DictDel(d, key) == SelectSeq(d, LAMBDA e : e.k # key)

\* d.values(), in insertion order
DictValues(d) == [i \in 1..Len(d) |-> d[i].v]

---------------------------------------------------------------------------
(* Persistence (src/main.py 35-42) *)

\* save_db() without the try/except: a failed write raises.
save_db_raising(ok) == [raised |-> ~ok, outcome |-> IF ok THEN "written" ELSE "failed"]

\* save_db(): writes the snapshot; an exception of the write is caught and
\* dropped, so the call never raises.  ok is whether the write succeeds.
save_db(ok) == [raised |-> FALSE, outcome |-> IF ok THEN "written" ELSE "failed"]

---------------------------------------------------------------------------
(* Endpoints *)

NotFound == [status |-> 404, body |-> "String not found"]

\* Properties(...) of src/main.py 117-124
Props(value) ==
    [length                  |-> Len(value),
     is_palindrome           |-> palindrome(value),
     unique_characters       |-> unique_characters_count(value),
     word_count              |-> word_count(value),
     sha256_hash             |-> generate_sha_256(value),
     character_frequency_map |-> char_count(value)]

\* create_string without the duplicate check: the record is stored again
\* under its digest, with a new created_at.
create_string_unchecked(db, value, now, save_ok) ==
    LET sha    == generate_sha_256(value)
        stored == [id |-> sha, value |-> value,
                   properties |-> Props(value), created_at |-> now]
    IN [db   |-> DictSet(db, sha, stored),
        save |-> save_db(save_ok).outcome,
        resp |-> [status |-> 201, body |-> stored]]

\* create_string without the duplicate check, on a store keyed per request
\* (digest of the value and the time) instead of per value.
create_string_rekeyed(db, value, now, save_ok) ==
    LET sha    == generate_sha_256(value)
        stored == [id |-> sha, value |-> value,
                   properties |-> Props(value), created_at |-> now]
    IN [db   |-> DictSet(db, sha \o "@" \o now, stored),
        save |-> save_db(save_ok).outcome,
        resp |-> [status |-> 201, body |-> stored]]

\* POST /strings.  now is datetime.utcnow() truncated to seconds.
create_string(db, value, now, save_ok) ==
    IF \E i \in 1..Len(db) : db[i].v.value = value
    THEN [db |-> db, save |-> "none",
          resp |-> [status |-> 409, body |-> "String already exists in the system"]]
    ELSE LET sha    == generate_sha_256(value)
             stored == [id |-> sha, value |-> value,
                        properties |-> Props(value), created_at |-> now]
             saved  == save_db(save_ok)
         IN [db   |-> DictSet(db, sha, stored),
             save |-> saved.outcome,
             resp |-> IF saved.raised
                      THEN [status |-> 500, body |-> "Internal Server Error"]
                      ELSE [status |-> 201, body |-> stored]]

\* GET /strings/{id_or_value}
get_string(db, id_or_value) ==
    LET identifier == unquote_plus(id_or_value)
        vals       == DictValues(db)
    IN IF DictHas(db, identifier)
       THEN [status |-> 200, body |-> DictGet(db, identifier)]
       ELSE IF \E i \in 1..Len(vals) : vals[i].value = identifier
            THEN [status |-> 200,
                  body |-> vals[CHOOSE i \in 1..Len(vals) :
                                   /\ vals[i].value = identifier
                                   /\ \A j \in 1..(i - 1) : vals[j].value # identifier]]
            ELSE NotFound

\* DELETE /strings/{id_or_value}
delete_string(db, id_or_value, save_ok) ==
    LET identifier == unquote_plus(id_or_value)
        saved      == save_db(save_ok)
        done(d)    == [db |-> d, save |-> saved.outcome,
                       resp |-> IF saved.raised
                                THEN [status |-> 500, body |-> "Internal Server Error"]
                                ELSE [status |-> 204, body |-> "None"]]
    IN IF DictHas(db, identifier)
       THEN done(DictDel(db, identifier))
       ELSE IF \E i \in 1..Len(db) : db[i].v.value = identifier
            THEN LET found_key ==
                         db[CHOOSE i \in 1..Len(db) :
                               /\ db[i].v.value = identifier
                               /\ \A j \in 1..(i - 1) : db[j].v.value # identifier].k
                 IN done(DictDel(db, found_key))
            ELSE [db |-> db, save |-> "none", resp |-> NotFound]


\* matches(st) with the lower length bound exclusive.
matches_exclusive(st, is_palindrome, min_length, max_length, word_count_eq, contains_character) ==
    LET p == st.properties IN
    IF \E b \in is_palindrome : p.is_palindrome # b THEN FALSE
    ELSE IF \E n \in min_length : p.length <= n THEN FALSE
    ELSE IF \E n \in max_length : p.length > n THEN FALSE
    ELSE IF \E n \in word_count_eq : p.word_count # n THEN FALSE
    ELSE IF \E c \in contains_character :
                lower(c) \notin DOMAIN p.character_frequency_map THEN FALSE
    ELSE TRUE

\* matches(st) of list_strings (src/main.py 197-210).  An Optional
\* parameter is a set: {} for None, {x} for the value x.
matches(st, is_palindrome, min_length, max_length, word_count_eq, contains_character) ==
    LET p == st.properties IN
    IF \E b \in is_palindrome : p.is_palindrome # b THEN FALSE
    ELSE IF \E n \in min_length : p.length < n THEN FALSE
    ELSE IF \E n \in max_length : p.length > n THEN FALSE
    ELSE IF \E n \in word_count_eq : p.word_count # n THEN FALSE
    ELSE IF \E c \in contains_character :
                lower(c) \notin DOMAIN p.character_frequency_map THEN FALSE
    ELSE TRUE

\* all_results[skip: skip + limit]
Slice(seq, skip, limit) == SubSeq(seq, skip + 1, Min(skip + limit, Len(seq)))

\* GET /strings.  f holds the five Optional query parameters; FastAPI's
\* Query(...) bounds (ge=0, ge=1, one character) hold of every call.
list_strings(db, f, skip, limit) ==
    IF \E mn \in f.min_length : \E mx \in f.max_length : mn > mx
    THEN [status |-> 400, body |-> "min_length cannot be greater than max_length"]
    ELSE IF \E c \in f.contains_character : Len(c) # 1
    THEN [status |-> 400, body |-> "contains_character must be a single character"]
    ELSE LET all_results ==
                 SelectSeq(DictValues(db),
                           LAMBDA st : matches(st, f.is_palindrome, f.min_length,
                                               f.max_length, f.word_count,
                                               f.contains_character))
             paginated == Slice(all_results, skip, limit)
         IN [status |-> 200,
             body |-> [data            |-> paginated,
                       count           |-> Len(all_results),
                       returned        |-> Len(paginated),
                       filters_applied |-> f]]

---------------------------------------------------------------------------
(* Natural-language filter (src/main.py 222-278) *)

\* dict[key] = val on a dict held as a function
DictPut(d, key, val) ==
    [x \in (DOMAIN d) \cup {key} |-> IF x = key THEN val ELSE d[x]]

EmptyDict == [x \in {} |-> 0]

\* The maximal run of digits of s that starts at position i.
RECURSIVE DigitRun(_, _)
DigitRun(s, i) ==
    IF i <= Len(s) /\ IsDigit(At(s, i)) THEN At(s, i) \o DigitRun(s, i + 1) ELSE ""

\* int() of a string of decimal digits
RECURSIVE ToInt(_)
ToInt(ds) ==
    IF ds = "" THEN 0
    ELSE 10 * ToInt(SubSeq(ds, 1, Len(ds) - 1)) + (Index(Digits, At(ds, Len(ds))) - 1)

\* Position after the whitespace run that starts at i (i itself if none).
RECURSIVE SkipSpaces(_, _)
SkipSpaces(s, i) ==
    IF i <= Len(s) /\ IsSpace(At(s, i)) THEN SkipSpaces(s, i + 1) ELSE i

\* re.search(r"longer than (\d+)", q): group 1 of the leftmost match, as a
\* set ({} when there is no match).
search_longer_than(q) ==
    LET hit(i) == /\ StartsWithAt(q, i, "longer than ")
                  /\ DigitRun(q, i + 12) # ""
        hits   == {i \in 1..Len(q) : hit(i)}
    IN IF hits = {} THEN {}
       ELSE LET i == CHOOSE x \in hits : \A y \in hits : x <= y
            IN {DigitRun(q, i + 12)}

\* The alternatives of  contain(?:s|ing)?(?: the letter)?  in the order the
\* regex engine tries them.
ContainPrefixes ==
    <<"contains the letter", "contains", "containing the letter", "containing",
      "contain the letter", "contain">>

\* \s+([a-zA-Z]) at position i: the letter, as a set.
SpacesThenLetter(q, i) ==
    LET j == SkipSpaces(q, i)
    IN IF j > i /\ j <= Len(q) /\ IsAsciiLetter(At(q, j)) THEN {At(q, j)} ELSE {}

\* The regex anchored at position i: the first alternative that matches.
MatchContainAt(q, i) ==
    LET ok(n) == /\ StartsWithAt(q, i, ContainPrefixes[n])
                 /\ SpacesThenLetter(q, i + Len(ContainPrefixes[n])) # {}
        oks   == {n \in 1..Len(ContainPrefixes) : ok(n)}
    IN IF oks = {} THEN {}
       ELSE LET n == CHOOSE x \in oks : \A y \in oks : x <= y
            IN SpacesThenLetter(q, i + Len(ContainPrefixes[n]))

\* re.search(r"contain(?:s|ing)?(?: the letter)?\s+([a-zA-Z])", q)
search_contains(q) ==
    LET hits == {i \in 1..Len(q) : MatchContainAt(q, i) # {}}
    IN IF hits = {} THEN {}
       ELSE MatchContainAt(q, CHOOSE x \in hits : \A y \in hits : x <= y)

\* The six heuristics, each on the dict the earlier ones left
\* (src/main.py 231-248).
single_word(d, q) ==
    IF Contains(q, "single word") \/ Contains(q, "single-word")
    THEN DictPut(d, "word_count", 1) ELSE d

multiple_words(d, q) ==
    IF Contains(q, "more than one word") \/ Contains(q, "multiple words")
    THEN DictPut(d, "min_word_count", 2) ELSE d

palindromic(d, q) ==
    IF Contains(q, "palindrom") THEN DictPut(d, "is_palindrome", TRUE) ELSE d

longer_than(d, m) ==
    IF m # {} THEN DictPut(d, "min_length", ToInt(CHOOSE g \in m : TRUE) + 1) ELSE d

contains_letter(d, m2) ==
    IF m2 # {}
    THEN DictPut(d, "contains_character", lower(CHOOSE g \in m2 : TRUE)) ELSE d

\* "first vowel" overriding whatever the contains rule set.
first_vowel_override(d, q) ==
    IF Contains(q, "first vowel") THEN DictPut(d, "contains_character", "a") ELSE d

first_vowel(d, q) ==
    IF Contains(q, "first vowel")
    THEN DictPut(d, "contains_character",
                 IF "contains_character" \in DOMAIN d
                 THEN d["contains_character"] ELSE "a")
    ELSE d

heuristics(q) ==
    first_vowel(
        contains_letter(
            longer_than(
                palindromic(multiple_words(single_word(EmptyDict, q), q), q),
                search_longer_than(q)),
            search_contains(q)),
        q)

\* parsed["parsed_filters"] after the heuristics (src/main.py 227-248)
parsed_filters(query) == heuristics(lower(query))

\* matches_parsed(st) (src/main.py 257-270)
matches_parsed(st, pf) ==
    LET p == st.properties IN
    IF "is_palindrome" \in DOMAIN pf /\ p.is_palindrome # pf["is_palindrome"] THEN FALSE
    ELSE IF "min_length" \in DOMAIN pf /\ p.length < pf["min_length"] THEN FALSE
    ELSE IF "max_length" \in DOMAIN pf /\ p.length > pf["max_length"] THEN FALSE
    ELSE IF "word_count" \in DOMAIN pf /\ p.word_count # pf["word_count"] THEN FALSE
    ELSE IF "contains_character" \in DOMAIN pf
            /\ lower(pf["contains_character"]) \notin DOMAIN p.character_frequency_map
         THEN FALSE
    ELSE TRUE

\* The handler from the emptiness check of the parsed filters on
\* (src/main.py 250-278).
filter_parsed(db, query, pf) ==
    IF DOMAIN pf = {}
    THEN [status |-> 400, body |-> "Unable to parse natural language query"]
    ELSE IF /\ "min_length" \in DOMAIN pf
            /\ "max_length" \in DOMAIN pf
            /\ pf["min_length"] > pf["max_length"]
    THEN [status |-> 422, body |-> "Parsed filters conflict (min_length > max_length)"]
    ELSE [status |-> 200,
          body |-> [data  |-> SelectSeq(DictValues(db), LAMBDA st : matches_parsed(st, pf)),
                    count |-> Len(SelectSeq(DictValues(db),
                                            LAMBDA st : matches_parsed(st, pf))),
                    interpreted_query |-> [original |-> query, parsed_filters |-> pf]]]

\* GET /strings/filter-by-natural-language
filter_by_natural_language(db, query) ==
    IF query = "" \/ strip(query) = ""
    THEN [status |-> 400, body |-> "query parameter required"]
    ELSE filter_parsed(db, query, parsed_filters(query))

\* GET /
root == [status |-> 200, body |-> "String Analysis API"]

---------------------------------------------------------------------------
(* Transport: percent-encoding and route matching *)

Unreserved == UpperSet \cup LowerSet \cup DigitSet \cup {"-", ".", "_", "~"}

HexByte(n) == At(HexUpper, (n \div 16) + 1) \o At(HexUpper, (n % 16) + 1)

\* The percent-encoding a client applies to a path segment (RFC 3986).
RECURSIVE quote(_)
quote(s) ==
    IF s = "" THEN ""
    ELSE (IF Head(s) \in Unreserved THEN Head(s) ELSE "%" \o HexByte(Ord(Head(s))))
             \o quote(Tail(s))

\* The routes in the order the decorators register them
\* (src/main.py 97, 104, 134, 150, 173, 222).
Routes ==
    <<[method |-> "GET",    path |-> <<>>,                          endpoint |-> "root"],
      [method |-> "POST",   path |-> <<"strings">>,                 endpoint |-> "create_string"],
      [method |-> "GET",    path |-> <<"strings", "{id_or_value}">>, endpoint |-> "get_string"],
      [method |-> "DELETE", path |-> <<"strings", "{id_or_value}">>, endpoint |-> "delete_string"],
      [method |-> "GET",    path |-> <<"strings">>,                 endpoint |-> "list_strings"],
      [method |-> "GET",    path |-> <<"strings", "filter-by-natural-language">>,
                                                                     endpoint |-> "filter_by_natural_language"]>>

\* A route's path matches the decoded path segments: a {parameter} takes
\* any non-empty segment without '/', anything else must be equal.
PathMatches(pattern, segs) ==
    /\ Len(pattern) = Len(segs)
    /\ \A i \in 1..Len(pattern) :
          IF pattern[i] = "{id_or_value}"
          THEN segs[i] # "" /\ ~Contains(segs[i], "/")
          ELSE pattern[i] = segs[i]

\* The router takes the first route, in registration order, whose path and
\* method both match; a path that matches under another method only is 405.
Dispatch(method, segs) ==
    LET full == {i \in 1..Len(Routes) :
                    PathMatches(Routes[i].path, segs) /\ Routes[i].method = method}
        part == {i \in 1..Len(Routes) : PathMatches(Routes[i].path, segs)}
    IN IF full # {} THEN Routes[CHOOSE i \in full : \A j \in full : i <= j].endpoint
       ELSE IF part # {} THEN "405" ELSE "404"

---------------------------------------------------------------------------
(* Inputs *)

\* Raw strings a client posts.
Values == {"b+b", "b b", "A", "559a"}

\* Most records the store holds at once.
MaxStore == 3

\* Readings of the wall clock, as created_at strings.
Instants == {"2025-10-21T10:00:00Z", "2025-10-21T10:00:01Z"}

\* Arguments of get and delete: raw values, digests, encoded forms, and a
\* string that names nothing.
Identifiers ==
    Values \cup {generate_sha_256(v) : v \in Values} \cup {"b%2Bb", "%41", "zz"}

NoFilters ==
    [is_palindrome |-> {}, min_length |-> {}, max_length |-> {},
     word_count |-> {}, contains_character |-> {}]

\* Query parameters of GET /strings.
FilterSets ==
    [is_palindrome      : {{}, {TRUE}, {FALSE}},
     min_length         : {{}, {2}, {4}},
     max_length         : {{}, {3}},
     word_count         : {{}, {1}},
     contains_character : {{}, {"A"}}]

Skips == {0, 1}

Limits == {1, 100}

\* Queries of the natural-language filter sent against a filled store.
SampleQueries ==
    {"strings that are a single word and are palindromes",
     "strings longer than 10", "Longer than 2", "multiple words",
     "containing the letter B", "first vowel", "hello", " ", ""}

\* Pieces the translated queries are put together from.
Fragments ==
    {"single word", "Single-Word ", "multiple words", "more than one word",
     " palindromes", "longer than 10", "longer than ", "9 ",
     "contains the letter Z", "containing  b", "contain", " the letter",
     "first vowel", " ", "strings"}

\* Most fragments in one query.
MaxFrags == 2

RECURSIVE Concats(_)
Concats(n) ==
    IF n = 0 THEN {""}
    ELSE LET shorter == Concats(n - 1)
         IN shorter \cup {a \o b : a \in shorter, b \in Fragments}

Queries == Concats(MaxFrags)

---------------------------------------------------------------------------
(* The handlers as actions: one request is handled at a time *)

Idle == [op |-> "idle"]

NoResponse == [status |-> 0, body |-> "None"]

Init ==
    /\ string_db = <<>>
    /\ request = Idle
    /\ response = NoResponse
    /\ prev_db = <<>>
    /\ last_save = "none"

\* The response has gone out; the server waits for the next request.
Respond ==
    /\ request # Idle
    /\ request' = Idle
    /\ response' = NoResponse
    /\ prev_db' = string_db
    /\ last_save' = "none"
    /\ UNCHANGED string_db

Create ==
    /\ request = Idle
    /\ \E value \in Values, now \in Instants, save_ok \in BOOLEAN :
        LET r == create_string(string_db, value, now, save_ok) IN
        /\ Len(r.db) <= MaxStore
        /\ request' = [op |-> "create", value |-> value, now |-> now,
                       save_ok |-> save_ok]
        /\ prev_db' = string_db
        /\ string_db' = r.db
        /\ response' = r.resp
        /\ last_save' = r.save

Get ==
    /\ request = Idle
    /\ \E id_or_value \in Identifiers :
        /\ request' = [op |-> "get", id_or_value |-> id_or_value]
        /\ prev_db' = string_db
        /\ response' = get_string(string_db, id_or_value)
        /\ last_save' = "none"
        /\ UNCHANGED string_db

Delete ==
    /\ request = Idle
    /\ \E id_or_value \in Identifiers, save_ok \in BOOLEAN :
        LET r == delete_string(string_db, id_or_value, save_ok) IN
        /\ request' = [op |-> "delete", id_or_value |-> id_or_value,
                       save_ok |-> save_ok]
        /\ prev_db' = string_db
        /\ string_db' = r.db
        /\ response' = r.resp
        /\ last_save' = r.save

List ==
    /\ request = Idle
    /\ \E f \in FilterSets, skip \in Skips, limit \in Limits :
        /\ request' = [op |-> "list", filters |-> f, skip |-> skip, limit |-> limit]
        /\ prev_db' = string_db
        /\ response' = list_strings(string_db, f, skip, limit)
        /\ last_save' = "none"
        /\ UNCHANGED string_db

Filter ==
    /\ request = Idle
    /\ \E query \in SampleQueries :
        /\ request' = [op |-> "filter", query |-> query]
        /\ prev_db' = string_db
        /\ response' = filter_by_natural_language(string_db, query)
        /\ last_save' = "none"
        /\ UNCHANGED string_db

Next == Create \/ Get \/ Delete \/ List \/ Filter \/ Respond

Spec == Init /\ [][Next]_vars

---------------------------------------------------------------------------
(* The translator alone, over the composed queries *)

Translate ==
    /\ request = Idle
    /\ \E query \in Queries :
        /\ request' = [op |-> "filter", query |-> query]
        /\ prev_db' = string_db
        /\ response' = filter_by_natural_language(string_db, query)
        /\ last_save' = "none"
        /\ UNCHANGED string_db

NextTranslate == Translate \/ Respond

SpecTranslate == Init /\ [][NextTranslate]_vars

---------------------------------------------------------------------------
(* The service behind its router: requests arrive as method + path *)

\* Path segments a client sends after /strings/ (before encoding).
Targets == Identifiers \cup {"filter-by-natural-language"}

\* The transport decodes each path segment once before routing.
DecodePath(path) == [i \in 1..Len(path) |-> unquote(path[i])]

\* The endpoint the router chose, run on the decoded path parameter.
Serve(db, endpoint, segs, value, query, now, save_ok) ==
    CASE endpoint = "root" ->
            [db |-> db, save |-> "none", resp |-> root]
      [] endpoint = "create_string" ->
            create_string(db, value, now, save_ok)
      [] endpoint = "get_string" ->
            [db |-> db, save |-> "none", resp |-> get_string(db, segs[2])]
      [] endpoint = "delete_string" ->
            delete_string(db, segs[2], save_ok)
      [] endpoint = "list_strings" ->
            [db |-> db, save |-> "none", resp |-> list_strings(db, NoFilters, 0, 100)]
      [] endpoint = "filter_by_natural_language" ->
            [db |-> db, save |-> "none", resp |-> filter_by_natural_language(db, query)]
      [] endpoint = "405" ->
            [db |-> db, save |-> "none",
             resp |-> [status |-> 405, body |-> "Method Not Allowed"]]
      [] OTHER ->
            [db |-> db, save |-> "none", resp |-> [status |-> 404, body |-> "Not Found"]]

\* POST /strings with a JSON body {"value": value}
HttpPost ==
    /\ request = Idle
    /\ \E value \in Values, now \in Instants, save_ok \in BOOLEAN :
       \E endpoint \in {Dispatch("POST", <<"strings">>)} :
       \E r \in {Serve(string_db, endpoint, <<"strings">>, value, "", now, save_ok)} :
        /\ Len(r.db) <= MaxStore
        /\ request' = [op |-> "http", method |-> "POST", path |-> <<"strings">>,
                       value |-> value, query |-> "", endpoint |-> endpoint]
        /\ prev_db' = string_db
        /\ string_db' = r.db
        /\ response' = r.resp
        /\ last_save' = r.save

\* GET on / , /strings and /strings/<segment>, with ?query=...
HttpGet ==
    /\ request = Idle
    /\ \E path \in {<<>>, <<"strings">>} \cup {<<"strings", quote(t)>> : t \in Targets},
          query \in SampleQueries :
       \E segs \in {DecodePath(path)} :
       \E endpoint \in {Dispatch("GET", segs)} :
       \E r \in {Serve(string_db, endpoint, segs, "", query, "", TRUE)} :
        /\ request' = [op |-> "http", method |-> "GET", path |-> path,
                       value |-> "", query |-> query, endpoint |-> endpoint]
        /\ prev_db' = string_db
        /\ string_db' = r.db
        /\ response' = r.resp
        /\ last_save' = r.save

\* DELETE /strings/<segment>
HttpDelete ==
    /\ request = Idle
    /\ \E t \in Targets, save_ok \in BOOLEAN :
       \E path \in {<<"strings", quote(t)>>} :
       \E segs \in {DecodePath(path)} :
       \E endpoint \in {Dispatch("DELETE", segs)} :
       \E r \in {Serve(string_db, endpoint, segs, "", "", "", save_ok)} :
        /\ request' = [op |-> "http", method |-> "DELETE", path |-> path,
                       value |-> "", query |-> "", endpoint |-> endpoint]
        /\ prev_db' = string_db
        /\ string_db' = r.db
        /\ response' = r.resp
        /\ last_save' = r.save

NextHttp == HttpPost \/ HttpGet \/ HttpDelete \/ Respond

SpecHttp == Init /\ [][NextHttp]_vars

---------------------------------------------------------------------------
(* Properties *)

Records(db) == DictValues(db)

HasValue(db, v) == \E i \in 1..Len(db) : db[i].v.value = v

HasId(db, x) == \E i \in 1..Len(db) : db[i].v.id = x

\* The record the dual lookup names for x: the one with identifier x, or
\* failing that the one with raw value x.
Named(db, x) ==
    IF HasId(db, x)
    THEN {db[i].v : i \in {j \in 1..Len(db) : db[j].v.id = x}}
    ELSE {db[i].v : i \in {j \in 1..Len(db) : db[j].v.value = x}}

\* db without the records of set gone, the order of the others kept.
Without(db, gone) == SelectSeq(db, LAMBDA e : e.v \notin gone)

\* C1: no two stored records have the same raw value.
C1_UniqueValues ==
    \A i, j \in 1..Len(string_db) :
        i # j => string_db[i].v.value # string_db[j].v.value

\* A duplicate create was just refused on a store of at least two records.
C1_Witness ==
    /\ request.op = "create"
    /\ response.status = 409
    /\ Len(string_db) >= 2

\* C2: create(v) with v already stored answers 409 and leaves the store as
\* it was: same records in the same order, none replaced.
C2_DuplicateRejected ==
    (request.op = "create" /\ HasValue(prev_db, request.value))
        => (response.status = 409 /\ string_db = prev_db)

\* A duplicate create arrived at another instant than the stored record's.
C2_Witness ==
    /\ request.op = "create"
    /\ Len(prev_db) >= 2
    /\ \E i \in 1..Len(prev_db) :
          /\ prev_db[i].v.value = request.value
          /\ prev_db[i].v.created_at # request.now

\* C3: delete(x) removes exactly the record get(x) names (identifier x, else
\* raw value x) and nothing else; when no record has identifier or value x
\* it answers 404 and leaves the store unchanged.
C3_DeleteDualLookup ==
    request.op = "delete" =>
        LET x == request.id_or_value IN
        IF HasId(prev_db, x) \/ HasValue(prev_db, x)
        THEN /\ response.status = 204
             /\ Cardinality(Named(prev_db, x)) = 1
             /\ string_db = Without(prev_db, Named(prev_db, x))
        ELSE /\ response.status = 404
             /\ string_db = prev_db

\* C4: get(x) returns the record with identifier x if stored, else the
\* record with raw value x if stored, else 404; the store does not change.
C4_GetDualLookup ==
    request.op = "get" =>
        LET x == request.id_or_value IN
        /\ string_db = prev_db
        /\ IF HasId(prev_db, x) \/ HasValue(prev_db, x)
           THEN response.status = 200 /\ response.body \in Named(prev_db, x)
           ELSE response.status = 404

\* Every present constraint of f holds of record st.
Satisfies(st, f) ==
    /\ \A b \in f.is_palindrome : st.properties.is_palindrome = b
    /\ \A n \in f.min_length : n <= st.properties.length
    /\ \A n \in f.max_length : st.properties.length <= n
    /\ \A n \in f.word_count : st.properties.word_count = n
    /\ \A c \in f.contains_character :
          lower(c) \in DOMAIN st.properties.character_frequency_map

\* The stored records that satisfy f, in insertion order.
Selected(db, f) == SelectSeq(Records(db), LAMBDA st : Satisfies(st, f))

\* C5: list returns the window [skip, skip+limit) of the records that
\* satisfy every present constraint, in insertion order, and reports the
\* number of all of them.
C5_ListWindow ==
    (request.op = "list"
        /\ ~(\E mn \in request.filters.min_length :
                \E mx \in request.filters.max_length : mn > mx))
    => LET sel == Selected(prev_db, request.filters)
           n   == IF Len(sel) <= request.skip THEN 0
                  ELSE Min(request.limit, Len(sel) - request.skip)
       IN /\ response.status = 200
          /\ response.body.count = Len(sel)
          /\ response.body.data = [k \in 1..n |-> sel[request.skip + k]]

\* A list whose window is shorter than its matches, which are not all of
\* the store.
C5_Witness ==
    /\ request.op = "list"
    /\ response.status = 200
    /\ request.filters.min_length # {}
    /\ response.body.returned >= 1
    /\ response.body.count > response.body.returned
    /\ response.body.count < Len(prev_db)

IsNLPath(path) == path = <<"strings", "filter-by-natural-language">>

Parseable(query) == strip(query) # "" /\ DOMAIN parsed_filters(query) # {}

\* C6: GET /strings/filter-by-natural-language?query=q is answered by the
\* natural-language filter: 200 with interpreted_query when a heuristic
\* fires, 400 when the query cannot be parsed; never get_string's answer.
C6_NaturalLanguageRouted ==
    (request.op = "http" /\ request.method = "GET" /\ IsNLPath(request.path))
    => /\ request.endpoint = "filter_by_natural_language"
       /\ response.status = IF Parseable(request.query) THEN 200 ELSE 400

\* Which heuristics fire on the lower-cased query q.
FiredFields(q) ==
    {k \in {"word_count", "min_word_count", "is_palindrome", "min_length",
            "contains_character"} :
        CASE k = "word_count" ->
                Contains(q, "single word") \/ Contains(q, "single-word")
          [] k = "min_word_count" ->
                Contains(q, "more than one word") \/ Contains(q, "multiple words")
          [] k = "is_palindrome" -> Contains(q, "palindrom")
          [] k = "min_length" -> search_longer_than(q) # {}
          [] k = "contains_character" ->
                search_contains(q) # {} \/ Contains(q, "first vowel")}

\* The value each fired heuristic gives its field.
FieldValue(k, q) ==
    CASE k = "word_count" -> 1
      [] k = "min_word_count" -> 2
      [] k = "is_palindrome" -> TRUE
      [] k = "min_length" -> ToInt(CHOOSE g \in search_longer_than(q) : TRUE) + 1
      [] k = "contains_character" ->
            IF search_contains(q) # {}
            THEN lower(CHOOSE g \in search_contains(q) : TRUE)
            ELSE "a"

Blank(query) == \A i \in 1..Len(query) : IsSpace(At(query, i))

\* C7: the translation fails with 400 exactly when the text is blank or no
\* heuristic fires; otherwise the derived predicate set holds exactly the
\* fields of the heuristics that fire, with the value each one gives, and
\* "first vowel" gives 'a' only when the contains rule set nothing.
C7_Translation ==
    request.op = "filter" =>
        LET q     == lower(request.query)
            fired == FiredFields(q)
        IN IF Blank(request.query) \/ fired = {}
           THEN response.status = 400
           ELSE /\ response.status = 200
                /\ response.body.interpreted_query.original = request.query
                /\ LET pf == response.body.interpreted_query.parsed_filters
                   IN /\ DOMAIN pf = fired
                      /\ \A k \in fired : pf[k] = FieldValue(k, q)

\* The contains rule and "first vowel" both fired, and the letter stayed.
C7_Witness ==
    /\ request.op = "filter"
    /\ response.status = 200
    /\ Contains(lower(request.query), "first vowel")
    /\ search_contains(lower(request.query)) # {}
    /\ response.body.interpreted_query.parsed_filters["contains_character"] # "a"

\* C8: when the snapshot write of a create or delete fails, the response
\* and the store are those of the same request with a successful write,
\* and the request does not fail.
C8_SaveFailureIgnored ==
    (request.op \in {"create", "delete"} /\ last_save = "failed")
    => LET r == IF request.op = "create"
                THEN create_string(prev_db, request.value, request.now, TRUE)
                ELSE delete_string(prev_db, request.id_or_value, TRUE)
       IN /\ response.status \in {201, 204}
          /\ response = r.resp
          /\ string_db = r.db

\* A create whose snapshot write failed stored its record all the same.
C8_Witness ==
    /\ request.op = "create"
    /\ last_save = "failed"
    /\ response.status = 201
    /\ Len(string_db) = Len(prev_db) + 1

\* C9: a get or delete whose path segment is the percent-encoding of a
\* stored raw value v (v not another record's identifier) finds the record
\* with raw value v.
C9_EncodedRoundTrip ==
    \A v \in Values :
        (/\ request.op = "http"
         /\ request.method \in {"GET", "DELETE"}
         /\ request.path = <<"strings", quote(v)>>
         /\ HasValue(prev_db, v)
         /\ ~HasId(prev_db, v))
        => IF request.method = "GET"
           THEN response.status = 200 /\ response.body.value = v
           ELSE /\ response.status = 204
                /\ ~HasValue(string_db, v)
                /\ Len(string_db) = Len(prev_db) - 1

\* Every constraint of the derived predicate set pf holds of record st,
\* min_word_count included.
SatisfiesParsed(st, pf) ==
    /\ "word_count" \in DOMAIN pf => st.properties.word_count = pf["word_count"]
    /\ "min_word_count" \in DOMAIN pf
          => st.properties.word_count >= pf["min_word_count"]
    /\ "is_palindrome" \in DOMAIN pf
          => st.properties.is_palindrome = pf["is_palindrome"]
    /\ "min_length" \in DOMAIN pf => st.properties.length >= pf["min_length"]
    /\ "contains_character" \in DOMAIN pf
          => pf["contains_character"] \in DOMAIN st.properties.character_frequency_map

\* C10: the natural-language filter returns exactly the stored records
\* that satisfy every constraint of the predicate set it echoes.
C10_ResultsSatisfyEcho ==
    (request.op = "filter" /\ response.status = 200)
    => LET pf == response.body.interpreted_query.parsed_filters
       IN response.body.data =
              SelectSeq(Records(prev_db), LAMBDA st : SatisfiesParsed(st, pf))

=============================================================================
